---- MODULE Spec2Model ----
(***************************************************************************)
(* Model of the Meshtastic MQTT -> Discord bridge (bridge/bridge.py).      *)
(*                                                                         *)
(* Python strings that are compared with node ids (node ids, sender,       *)
(* names) are sequences of one-character strings; None / a missing dict    *)
(* key is NoneV.  An MQTT topic is the sequence of its '/'-separated       *)
(* segments, which is what topic.split('/') returns.  A JSON payload is a  *)
(* record of the keys the bridge reads; a key that is missing has the      *)
(* value NoneV or the kind "absent".                                       *)
(***************************************************************************)
EXTENDS Integers, Sequences, FiniteSets, TLC

VARIABLES
    seen_messages,                  \* bridge.py:27  set of message ids already processed
    node_names,                     \* bridge.py:31  node id -> [short, long]
    DISCORD_WEBHOOK_URL,            \* bridge.py:19  TRUE iff the variable is non-empty
    DISCORD_TELEMETRY_WEBHOOK_URL,  \* bridge.py:20  TRUE iff the variable is non-empty
    loop,                           \* main(): "init", "running", "stopped", "exited"
    last,                           \* what the last on_message call did
    calls,                          \* webhook.execute() calls made, per message id
    evicted                         \* ids that seen_messages.pop() has removed

vars == <<seen_messages, node_names, DISCORD_WEBHOOK_URL,
          DISCORD_TELEMETRY_WEBHOOK_URL, loop, last, calls, evicted>>

-----------------------------------------------------------------------------
(* Bounds and constants *)

\* bridge.py:28 sets 1000; the model keeps the capacity small so that an
\* overflow of the set is reached, and every formula is stated in terms of it.
MAX_SEEN_MESSAGES == 2

\* calls[i] counts up to MaxCalls; MaxCalls stands for "MaxCalls or more".
MaxCalls == 2

\* one id more than the set can hold, so that the set can overflow
ScalarIds == 1 .. (MAX_SEEN_MESSAGES + 1)

-----------------------------------------------------------------------------
(* Values *)

NoneV == <<"None">>                 \* Python None, or a missing key
EmptyStr == <<>>                    \* the empty string ""
Truthy(v) == v # NoneV /\ v # EmptyStr

\* Python's  a or b
Or(a, b) == IF Truthy(a) THEN a ELSE b

Absent == "absent"
Unhashable == "[list]"              \* a JSON array (or object) where a scalar is expected

NoId == [k |-> "absent", v |-> 0]
IdVal(i) == [k |-> "scalar", v |-> i]
ListId == [k |-> "list", v |-> 0]
HashableIds == {IdVal(i) : i \in ScalarIds}

\* data['from']: a JSON integer below 2^31 is IntFrom(n); a larger one is
\* WideFrom(hi, lo), the number hi * 2^16 + lo, with hi and lo below 2^16.
NoFrom == [k |-> "absent", v |-> 0, hi |-> 0]
IntFrom(n) == [k |-> "int", v |-> n, hi |-> 0]
WideFrom(hi, lo) == [k |-> "wide", v |-> lo, hi |-> hi]
StrFrom == [k |-> "str", v |-> 0, hi |-> 0]

\* A JSON number that may be missing: <<>> when the key is absent, else <<n>>.
NoNum == <<>>
Num(n) == <<n>>
\* Python's  a or b  for such values: None and 0 are falsy
NumOr(a, b) == IF a # NoNum /\ a # Num(0) THEN a ELSE b
\* the keys of a position dict that hold the coordinates
NoCoords == [latitude_i |-> NoNum, latitudeI |-> NoNum, longitude_i |-> NoNum, longitudeI |-> NoNum]

NoNames == [shortName |-> NoneV, shortname |-> NoneV, longName |-> NoneV, longname |-> NoneV]
\* data['payload'].  user / top: the name keys under payload.user / in the
\* payload itself.  position / coords: the coordinate keys under
\* payload.position / in the payload itself.  device_metrics / battery_level:
\* battery_level under payload.device_metrics / in the payload itself.
NoPayload == [k |-> "absent", text |-> NoneV, userk |-> "absent", user |-> NoNames, top |-> NoNames,
              posk |-> "absent", position |-> NoCoords, coords |-> NoCoords,
              metricsk |-> "absent", device_metrics |-> NoNum, battery_level |-> NoNum]

NotJson == [kind |-> "notjson", type |-> Absent, id |-> NoId, from |-> NoFrom,
            sender |-> NoneV, text |-> NoneV, payload |-> NoPayload]
NonDict == [NotJson EXCEPT !.kind = "nondict"]
Data(type, id, from, sender, text, payload) ==
    [kind |-> "dict", type |-> type, id |-> id, from |-> from,
     sender |-> sender, text |-> text, payload |-> payload]

Message(topic, body) == [topic |-> topic, payload |-> body]

-----------------------------------------------------------------------------
(* Node name cache *)

NoRecord == [short |-> NoneV, long |-> NoneV]

\* update_node_name that assigns both arguments whatever they are
update_node_name_overwrite(names, node_id, short_name, long_name) ==
    [n \in DOMAIN names \cup {node_id} |->
        IF n = node_id THEN [short |-> short_name, long |-> long_name] ELSE names[n]]

update_node_name(names, node_id, short_name, long_name) ==
    LET old == IF node_id \in DOMAIN names THEN names[node_id] ELSE NoRecord
        new == [short |-> IF Truthy(short_name) THEN short_name ELSE old.short,
                long  |-> IF Truthy(long_name) THEN long_name ELSE old.long]
    IN  [n \in DOMAIN names \cup {node_id} |-> IF n = node_id THEN new ELSE names[n]]

\* get_node_display_name that prefers the short name
get_node_display_name_short_first(names, node_id) ==
    IF node_id \in DOMAIN names
    THEN IF Truthy(names[node_id].short) THEN names[node_id].short
         ELSE IF Truthy(names[node_id].long) THEN names[node_id].long
         ELSE node_id
    ELSE node_id

get_node_display_name(names, node_id) ==
    IF node_id \in DOMAIN names
    THEN IF Truthy(names[node_id].long) THEN names[node_id].long
         ELSE IF Truthy(names[node_id].short) THEN names[node_id].short
         ELSE node_id
    ELSE node_id

-----------------------------------------------------------------------------
(* parse_meshtastic_message *)

HexDigits == <<"0", "1", "2", "3", "4", "5", "6", "7", "8", "9", "a", "b", "c", "d", "e", "f">>

\* f"!{n:x}": the hex digits with no zero padding
FromHexUnpadded(n) ==
    LET d     == [i \in 1 .. 8 |-> HexDigits[((n \div (16 ^ (8 - i))) % 16) + 1]]
        first == IF \A i \in 1 .. 8 : d[i] = "0" THEN 8
                 ELSE CHOOSE i \in 1 .. 8 : d[i] # "0" /\ \A j \in 1 .. (i - 1) : d[j] = "0"
    IN  <<"!">> \o SubSeq(d, first, 8)

\* f"!{n:08x}" for 0 <= n < 2^31
FromHex(n) == <<"!">> \o [i \in 1 .. 8 |-> HexDigits[((n \div (16 ^ (8 - i))) % 16) + 1]]

\* f"!{n:08x}" for n = hi * 2^16 + lo: the upper four digits are those of hi,
\* the lower four those of lo
Hex4(x) == [i \in 1 .. 4 |-> HexDigits[((x \div (16 ^ (4 - i))) % 16) + 1]]
FromHexWide(hi, lo) == <<"!">> \o Hex4(hi) \o Hex4(lo)

\* parts = topic.split('/'); msg['channel'] = parts[3] if len(parts) >= 4.
\* The channel is <<segment>>, or <<>> when the event has no channel key.
NoChannel == <<>>
Channel(topic) == IF Len(topic) >= 4 THEN <<topic[4]>> ELSE NoChannel

NoMsg == [topic |-> <<>>, type |-> Absent, id |-> NoId, from_id |-> NoneV, from |-> NoneV,
          channel |-> NoChannel, text |-> NoneV, payload |-> NoPayload]

Rejected(names) == [ok |-> FALSE, msg |-> NoMsg, names |-> names]

\* parse_meshtastic_message that resolves the display name after the cache
\* update of a nodeinfo message instead of before it
parse_meshtastic_message_late_display(topic, data, names) ==
    LET msg_type == IF data.type = Absent THEN "unknown" ELSE data.type
        from_id  == IF data.from.k = "int" THEN FromHex(data.from.v)
                    ELSE IF data.from.k = "wide" THEN FromHexWide(data.from.hi, data.from.v)
                    ELSE data.sender
        p        == data.payload
        text     == IF p.k = "dict" /\ p.text # NoneV THEN p.text ELSE data.text
        user     == IF p.k = "dict" /\ p.userk = "dict" THEN p.user ELSE NoNames
        updated  == IF msg_type = "nodeinfo"
                    THEN update_node_name(names, from_id,
                                          Or(user.shortName, user.shortname),
                                          Or(user.longName, user.longname))
                    ELSE names
        msg      == [topic |-> topic, type |-> msg_type, id |-> data.id,
                     from_id |-> from_id, from |-> get_node_display_name(updated, from_id),
                     channel |-> Channel(topic),
                     text |-> IF msg_type = "text" THEN text ELSE NoneV,
                     payload |-> p]
    IN  IF data.kind # "dict" THEN Rejected(names)
        ELSE IF data.from.k = "str" THEN Rejected(names)
        ELSE IF data.from.k = "absent" /\ data.sender = NoneV THEN Rejected(names)
        ELSE IF msg_type = "text" /\ text = NoneV THEN Rejected(names)
        ELSE IF msg_type = "nodeinfo" /\ (p.k = "notdict" \/ (p.k = "dict" /\ p.userk = "notdict"))
             THEN Rejected(names)
        ELSE [ok |-> TRUE, msg |-> msg, names |-> updated]

parse_meshtastic_message(topic, data, names) ==
    LET msg_type == IF data.type = Absent THEN "unknown" ELSE data.type
        from_id  == IF data.from.k = "int" THEN FromHex(data.from.v)
                    ELSE IF data.from.k = "wide" THEN FromHexWide(data.from.hi, data.from.v)
                    ELSE data.sender
        p        == data.payload
        text     == IF p.k = "dict" /\ p.text # NoneV THEN p.text ELSE data.text
        user     == IF p.k = "dict" /\ p.userk = "dict" THEN p.user ELSE NoNames
        msg      == [topic |-> topic, type |-> msg_type, id |-> data.id,
                     from_id |-> from_id, from |-> get_node_display_name(names, from_id),
                     channel |-> Channel(topic),
                     text |-> IF msg_type = "text" THEN text ELSE NoneV,
                     payload |-> p]
    IN  IF data.kind # "dict" THEN Rejected(names)           \* json.loads / data.get raises
        ELSE IF data.from.k = "str" THEN Rejected(names)     \* format code 'x' raises
        ELSE IF data.from.k = "absent" /\ data.sender = NoneV THEN Rejected(names)
        ELSE IF msg_type = "text" /\ text = NoneV THEN Rejected(names)
        ELSE IF msg_type = "nodeinfo" /\ (p.k = "notdict" \/ (p.k = "dict" /\ p.userk = "notdict"))
             THEN Rejected(names)                            \* .get on a non-dict raises
        ELSE IF msg_type = "nodeinfo"
             THEN [ok |-> TRUE, msg |-> msg,
                   names |-> update_node_name(names, from_id,
                                              Or(user.shortName, user.shortname),
                                              Or(user.longName, user.longname))]
        ELSE [ok |-> TRUE, msg |-> msg, names |-> names]

-----------------------------------------------------------------------------
(* Delivery *)

\* The embed of a notification: the value of its From field, the names of
\* its fields (of those that depend on the keys the model carries), and the
\* marker in the Battery field.
NoNote == [from |-> NoneV, fields |-> {}, battery |-> "none"]

NotSent(names) == [endpoints |-> {}, result |-> "none", names |-> names, raised |-> FALSE,
                   note |-> NoNote]

\* lines 67-71 and 121-125: the display name, followed by the node id in
\* brackets when the two differ
FromField(message_data) ==
    IF message_data.from_id # message_data.from
    THEN message_data.from \o <<" ", "(">> \o message_data.from_id \o <<")">>
    ELSE message_data.from

\* endpoints: the webhooks a notification was posted to.
\* ok: whether building the embed and webhook.execute() go through; an
\* exception is caught and logged (lines 97-98, 207-208).
send_to_discord(message_data, names, primary_url, ok) ==
    IF ~primary_url THEN NotSent(names)
    ELSE [endpoints |-> {"primary"}, result |-> IF ok THEN "sent" ELSE "failed",
          names |-> names, raised |-> FALSE,
          note |-> [from |-> FromField(message_data),
                    fields |-> {"From", "Message"}
                               \cup (IF message_data.channel # NoChannel THEN {"Channel"} ELSE {}),
                    battery |-> "none"]]

\* pos = payload.get('position', payload)
Position(p) == IF p.posk = "dict" THEN p.position ELSE p.coords
\* metrics = payload.get('device_metrics', payload), and its battery_level
BatteryLevel(p) == IF p.metricsk = "dict" THEN p.device_metrics ELSE p.battery_level

\* lines 130-139
PositionFields(p) ==
    LET pos   == Position(p)
        lat_i == NumOr(pos.latitude_i, pos.latitudeI)
        lon_i == NumOr(pos.longitude_i, pos.longitudeI)
    IN  IF lat_i # NoNum /\ lon_i # NoNum /\ (lat_i # Num(0) \/ lon_i # Num(0))
        THEN {"Location", "Map"}
        ELSE {}

\* lines 150-155: "battery" is the full-battery emoji, "low_battery" the
\* low-battery one
BatteryMarker(p) ==
    LET battery == BatteryLevel(p)
    IN  IF battery = NoNum THEN "none"
        ELSE IF battery[1] > 20 THEN "battery"
        ELSE "low_battery"

\* The nodeinfo branch (lines 167-180) updates the cache before the webhook
\* is executed: long name first, then short name.
send_telemetry_to_discord(message_data, names, telemetry_url, ok) ==
    LET p          == message_data.payload
        user       == IF p.k = "dict" /\ p.userk = "dict" THEN p.user
                      ELSE IF p.k = "dict" THEN p.top
                      ELSE NoNames
        long_name  == Or(user.longName, user.longname)
        short_name == Or(user.shortName, user.shortname)
        n1         == IF Truthy(long_name)
                      THEN update_node_name(names, message_data.from_id, NoneV, long_name)
                      ELSE names
        n2         == IF Truthy(short_name)
                      THEN update_node_name(n1, message_data.from_id, short_name, NoneV)
                      ELSE n1
    IN  IF ~telemetry_url THEN NotSent(names)
        ELSE IF message_data.type \in {"position", "telemetry"} /\ p.k = "notdict"
             THEN [NotSent(names) EXCEPT !.result = "failed"]   \* payload.get raises, line 131 / 150
        ELSE [endpoints |-> {"telemetry"}, result |-> IF ok THEN "sent" ELSE "failed",
              names |-> IF message_data.type = "nodeinfo" THEN n2 ELSE names,
              raised |-> FALSE,
              note |-> [from |-> FromField(message_data),
                        fields |-> {"From"} \cup
                            (IF message_data.type = "position" THEN PositionFields(p)
                             ELSE IF message_data.type = "telemetry"
                                  THEN (IF BatteryMarker(p) # "none" THEN {"Battery"} ELSE {})
                             ELSE (IF Truthy(long_name) THEN {"Long Name"} ELSE {})
                                  \cup (IF Truthy(short_name) THEN {"Short Name"} ELSE {})),
                        battery |-> IF message_data.type = "telemetry"
                                    THEN BatteryMarker(p) ELSE "none"]]

TelemetryTypes == {"position", "telemetry", "nodeinfo"}

\* Route that posts a telemetry-category event to the primary webhook when no
\* telemetry webhook is configured
RouteFallbackToPrimary(parsed, names, primary_url, telemetry_url, ok) ==
    IF parsed.type = "text" THEN send_to_discord(parsed, names, primary_url, ok)
    ELSE IF parsed.type = Unhashable THEN [NotSent(names) EXCEPT !.raised = TRUE]
    ELSE IF parsed.type \in TelemetryTypes
         THEN IF telemetry_url THEN send_telemetry_to_discord(parsed, names, telemetry_url, ok)
              ELSE send_to_discord(parsed, names, primary_url, ok)
    ELSE NotSent(names)

\* lines 305-313; a list-valued type cannot be hashed for the set membership test
Route(parsed, names, primary_url, telemetry_url, ok) ==
    IF parsed.type = "text" THEN send_to_discord(parsed, names, primary_url, ok)
    ELSE IF parsed.type = Unhashable THEN [NotSent(names) EXCEPT !.raised = TRUE]
    ELSE IF parsed.type \in TelemetryTypes
         THEN send_telemetry_to_discord(parsed, names, telemetry_url, ok)
    ELSE NotSent(names)

-----------------------------------------------------------------------------
(* on_message *)

\* the topic test left out: every topic is processed
HasJsonMarkerAny(topic) == Len(topic) >= 0

\* '/json/' in topic: a segment "json" with a segment before and after it
HasJsonMarker(topic) == \E i \in 2 .. (Len(topic) - 1) : topic[i] = "json"

\* Deduplicate with the length tested before the add instead of after it
DeduplicateLateEvict(seen, id, victim) ==
    IF id.k = "absent" THEN [admit |-> TRUE, raised |-> FALSE, seen |-> seen, popped |-> {}]
    ELSE IF id.k = "list" THEN [admit |-> FALSE, raised |-> TRUE, seen |-> seen, popped |-> {}]
    ELSE IF id \in seen THEN [admit |-> FALSE, raised |-> FALSE, seen |-> seen, popped |-> {}]
    ELSE IF Cardinality(seen) > MAX_SEEN_MESSAGES
         THEN [admit |-> TRUE, raised |-> FALSE,
               seen |-> (seen \cup {id}) \ {victim}, popped |-> {victim}]
    ELSE [admit |-> TRUE, raised |-> FALSE, seen |-> seen \cup {id}, popped |-> {}]

\* Deduplicate without the membership test: the id is recorded, never looked up
DeduplicateNoLookup(seen, id, victim) ==
    IF id.k = "absent" THEN [admit |-> TRUE, raised |-> FALSE, seen |-> seen, popped |-> {}]
    ELSE IF id.k = "list" THEN [admit |-> FALSE, raised |-> TRUE, seen |-> seen, popped |-> {}]
    ELSE IF Cardinality(seen \cup {id}) > MAX_SEEN_MESSAGES
         THEN [admit |-> TRUE, raised |-> FALSE,
               seen |-> (seen \cup {id}) \ {victim}, popped |-> {victim}]
    ELSE [admit |-> TRUE, raised |-> FALSE, seen |-> seen \cup {id}, popped |-> {}]

\* Deduplicate that reads the id with parsed.get('id'): an event without an
\* id is recorded and looked up under the value None
DeduplicateGetId(seen, id, victim) ==
    IF id.k = "list" THEN [admit |-> FALSE, raised |-> TRUE, seen |-> seen, popped |-> {}]
    ELSE IF id \in seen THEN [admit |-> FALSE, raised |-> FALSE, seen |-> seen, popped |-> {}]
    ELSE IF Cardinality(seen \cup {id}) > MAX_SEEN_MESSAGES
         THEN [admit |-> TRUE, raised |-> FALSE,
               seen |-> (seen \cup {id}) \ {victim}, popped |-> {victim}]
    ELSE [admit |-> TRUE, raised |-> FALSE, seen |-> seen \cup {id}, popped |-> {}]

\* lines 295-303.  victim is the element seen_messages.pop() removes: any
\* element of the set as it is after the add.
Deduplicate(seen, id, victim) ==
    IF id.k = "absent" THEN [admit |-> TRUE, raised |-> FALSE, seen |-> seen, popped |-> {}]
    ELSE IF id.k = "list" THEN [admit |-> FALSE, raised |-> TRUE, seen |-> seen, popped |-> {}]
    ELSE IF id \in seen THEN [admit |-> FALSE, raised |-> FALSE, seen |-> seen, popped |-> {}]
    ELSE IF Cardinality(seen \cup {id}) > MAX_SEEN_MESSAGES
         THEN [admit |-> TRUE, raised |-> FALSE,
               seen |-> (seen \cup {id}) \ {victim}, popped |-> {victim}]
    ELSE [admit |-> TRUE, raised |-> FALSE, seen |-> seen \cup {id}, popped |-> {}]

\* what set.pop() may return for this message
PopChoices(seen, id) ==
    IF id.k = "scalar" /\ id \notin seen /\ Cardinality(seen \cup {id}) > MAX_SEEN_MESSAGES
    THEN seen \cup {id}
    ELSE {NoId}

Outcome(stage, raised, seen, names, sent, event, popped) ==
    [stage |-> stage, raised |-> raised, seen |-> seen, names |-> names,
     endpoints |-> sent.endpoints, result |-> sent.result, event |-> event, popped |-> popped,
     note |-> sent.note]

\* on_message with the duplicate test ahead of normalization: a duplicate
\* returns before parse_meshtastic_message has touched the cache
OnMessageResultGateFirst(seen, names, primary_url, telemetry_url, m, victim, ok) ==
    LET parsed == parse_meshtastic_message(m.topic, m.payload, names)
        gate   == Deduplicate(seen, parsed.msg.id, victim)
        sent   == Route(parsed.msg, parsed.names, primary_url, telemetry_url, ok)
    IN  IF ~HasJsonMarker(m.topic)
        THEN Outcome("ignored", FALSE, seen, names, NotSent(names), NoMsg, {})
        ELSE IF ~parsed.ok
        THEN Outcome("rejected", FALSE, seen, parsed.names, NotSent(names), NoMsg, {})
        ELSE IF gate.raised
        THEN Outcome("gate", TRUE, seen, names, NotSent(names), parsed.msg, {})
        ELSE IF ~gate.admit
        THEN Outcome("duplicate", FALSE, seen, names, NotSent(names), parsed.msg, {})
        ELSE Outcome("admitted", sent.raised, gate.seen, sent.names, sent, parsed.msg, gate.popped)

\* on_message that records the id of the raw message before normalization
OnMessageResultIdFirst(seen, names, primary_url, telemetry_url, m, victim, ok) ==
    LET parsed == parse_meshtastic_message(m.topic, m.payload, names)
        gate   == Deduplicate(seen, parsed.msg.id, victim)
        sent   == Route(parsed.msg, parsed.names, primary_url, telemetry_url, ok)
    IN  IF ~HasJsonMarker(m.topic)
        THEN Outcome("ignored", FALSE, seen, names, NotSent(names), NoMsg, {})
        ELSE IF ~parsed.ok
        THEN Outcome("rejected", FALSE,
                     IF m.payload.id.k = "scalar" THEN seen \cup {m.payload.id} ELSE seen,
                     parsed.names, NotSent(names), NoMsg, {})
        ELSE IF gate.raised
        THEN Outcome("gate", TRUE, seen, parsed.names, NotSent(names), parsed.msg, {})
        ELSE IF ~gate.admit
        THEN Outcome("duplicate", FALSE, seen, parsed.names, NotSent(names), parsed.msg, {})
        ELSE Outcome("admitted", sent.raised, gate.seen, sent.names, sent, parsed.msg, gate.popped)

OnMessageResult(seen, names, primary_url, telemetry_url, m, victim, ok) ==
    LET parsed == parse_meshtastic_message(m.topic, m.payload, names)
        gate   == Deduplicate(seen, parsed.msg.id, victim)
        sent   == Route(parsed.msg, parsed.names, primary_url, telemetry_url, ok)
    IN  IF ~HasJsonMarker(m.topic)
        THEN Outcome("ignored", FALSE, seen, names, NotSent(names), NoMsg, {})
        ELSE IF ~parsed.ok
        THEN Outcome("rejected", FALSE, seen, parsed.names, NotSent(names), NoMsg, {})
        ELSE IF gate.raised
        THEN Outcome("gate", TRUE, seen, parsed.names, NotSent(names), parsed.msg, {})
        ELSE IF ~gate.admit
        THEN Outcome("duplicate", FALSE, seen, parsed.names, NotSent(names), parsed.msg, {})
        ELSE Outcome("admitted", sent.raised, gate.seen, sent.names, sent, parsed.msg, gate.popped)

NoInput == Message(<<>>, NotJson)

Bump(f, id) == [f EXCEPT ![id] = IF @ < MaxCalls THEN @ + 1 ELSE @]

\* An exception that leaves on_message leaves loop_forever() and is caught by
\* main (lines 331-334), which disconnects: the ingestion loop is over.
on_message(m, victim, ok) ==
    \E out \in {OnMessageResult(seen_messages, node_names, DISCORD_WEBHOOK_URL,
                                DISCORD_TELEMETRY_WEBHOOK_URL, m, victim, ok)} :
        /\ loop = "running"
        /\ seen_messages' = out.seen
        /\ node_names' = out.names
        /\ last' = [msg |-> m, stage |-> out.stage, raised |-> out.raised,
                    endpoints |-> out.endpoints, result |-> out.result,
                    event |-> out.event, popped |-> out.popped,
                    changed |-> out.names # node_names, note |-> out.note]
        /\ calls' = IF out.endpoints # {} /\ out.event.id.k = "scalar"
                    THEN Bump(calls, out.event.id) ELSE calls
        /\ evicted' = evicted \cup out.popped
        /\ loop' = IF out.raised THEN "stopped" ELSE loop
        /\ UNCHANGED <<DISCORD_WEBHOOK_URL, DISCORD_TELEMETRY_WEBHOOK_URL>>

\* lines 316-328: without the primary webhook main returns before connecting
main ==
    /\ loop = "init"
    /\ loop' = IF DISCORD_WEBHOOK_URL THEN "running" ELSE "exited"
    /\ UNCHANGED <<seen_messages, node_names, DISCORD_WEBHOOK_URL,
                   DISCORD_TELEMETRY_WEBHOOK_URL, last, calls, evicted>>

Init ==
    /\ seen_messages = {}
    /\ node_names = << >>
    /\ DISCORD_WEBHOOK_URL \in BOOLEAN
    /\ DISCORD_TELEMETRY_WEBHOOK_URL \in BOOLEAN
    /\ loop = "init"
    /\ last = [msg |-> NoInput, stage |-> "none", raised |-> FALSE, endpoints |-> {},
               result |-> "none", event |-> NoMsg, popped |-> {}, changed |-> FALSE,
               note |-> NoNote]
    /\ calls = [i \in HashableIds |-> 0]
    /\ evicted = {}

-----------------------------------------------------------------------------
(* Inbound messages *)

JsonTopic == <<"meshtastic", "json", "2", "text">>
BinaryTopic == <<"meshtastic", "binary", "0">>
Hi == <<"h", "i">>

\* messages that differ in id and type, all from node 1
Types == {"text", "neighborinfo"}
Ids == {NoId} \cup HashableIds
Messages ==
    {Message(JsonTopic, Data(t, i, IntFrom(1), NoneV, Hi, NoPayload)) : t \in Types, i \in Ids}

\* The transport's answer matters only for a message of a routed type.
Answers(m) ==
    IF m.payload.type \in {"text"} \cup TelemetryTypes THEN BOOLEAN ELSE {TRUE}

Receive ==
    \E m \in Messages : \E victim \in PopChoices(seen_messages, m.payload.id) :
        \E ok \in Answers(m) : on_message(m, victim, ok)

Next == main \/ Receive

Spec == Init /\ [][Next]_vars

-----------------------------------------------------------------------------
(* Deduplication: C1, C2, C3 (under Spec) *)

\* C1 as claimed: two events that share a non-null id result in one call to
\* the delivery transport, however many messages with other ids arrive
\* between them: no id ever gets a second call.
C1_OneCallPerId == \A i \in HashableIds : calls[i] <= 1

\* C1 amended: an id that seen_messages.pop() has not evicted gets at most one
\* call to the delivery transport, whether that call succeeded or failed; an
\* event dropped as a duplicate causes no call and leaves its id in the set;
\* and an admitted text event with a scalar id has caused a call.
C1_OneCallWhileRetained ==
    /\ \A i \in HashableIds \ evicted : calls[i] <= 1
    /\ last.stage = "duplicate" =>
         /\ last.endpoints = {}
         /\ last.event.id \in seen_messages
    /\ (last.stage = "admitted" /\ last.event.type = "text" /\ last.event.id.k = "scalar") =>
         calls[last.event.id] >= 1

\* A second event with an id that was delivered once is dropped while other
\* ids are in the set too.
C1_Witness ==
    /\ last.stage = "duplicate"
    /\ last.event.id \notin evicted
    /\ calls[last.event.id] = 1
    /\ Cardinality(seen_messages) >= 2

\* C2: after on_message has finished, the seen-id set holds at most
\* MAX_SEEN_MESSAGES ids.
C2_SeenBounded == Cardinality(seen_messages) <= MAX_SEEN_MESSAGES

\* More distinct ids were admitted than the set holds: an admission has evicted.
C2_Witness ==
    /\ last.stage = "admitted"
    /\ last.popped # {}
    /\ Cardinality(seen_messages) = MAX_SEEN_MESSAGES

\* C3 as claimed: an event with a new id X that is admitted leaves X in the
\* seen-id set when the admit step ends (the entry evicted on overflow is one
\* that was in the set before X).
C3_NewIdRetained ==
    (last.stage = "admitted" /\ last.event.id.k = "scalar") => last.event.id \in seen_messages

-----------------------------------------------------------------------------
(* Node names: C4, C5, C6 (under SpecNames) *)

SA == <<"a">>
SB == <<"b">>
LA == <<"L", "A">>
LB == <<"L", "B">>
LT == <<"L", "T">>
Station == <<"s">>                   \* a node known by its sender string only

UserNames ==
    [shortName : {NoneV, EmptyStr, SA}, shortname : {NoneV, SB},
     longName : {NoneV, EmptyStr, LA}, longname : {NoneV, LB}]

\* payload {"user": {...}}
UserPayload(u) == [NoPayload EXCEPT !.k = "dict", !.userk = "dict", !.user = u]
\* payload {"longName": ...} with no "user" key
TopPayload(t) == [NoPayload EXCEPT !.k = "dict", !.top = t]

NameMessages ==
    {Message(JsonTopic, Data("nodeinfo", i, IntFrom(1), NoneV, NoneV, UserPayload(u))) :
        u \in UserNames, i \in {NoId, IdVal(1)}}
    \cup {Message(JsonTopic, Data("nodeinfo", NoId, IntFrom(1), NoneV, NoneV,
                                  TopPayload([NoNames EXCEPT !.longName = LT]))),
          Message(JsonTopic, Data("nodeinfo", NoId, NoFrom, Station, NoneV,
                                  UserPayload([NoNames EXCEPT !.longName = LA]))),
          Message(JsonTopic, Data("nodeinfo", NoId, NoFrom, Station, NoneV, NoPayload)),
          Message(JsonTopic, Data("text", NoId, IntFrom(1), NoneV, Hi, NoPayload))}

ReceiveNames ==
    \E m \in NameMessages : \E victim \in PopChoices(seen_messages, m.payload.id) :
        \E ok \in Answers(m) : on_message(m, victim, ok)

NextNames == main \/ ReceiveNames

SpecNames == Init /\ [][NextNames]_vars

NodeIds == {FromHex(1), FromHex(2), Station}
NameValues == {NoneV, EmptyStr, SA, SB, LA, LB, LT}

\* the names update_node_name is called with during normalization (lines 273-277)
ParsedShort(event) == Or(event.payload.user.shortName, event.payload.user.shortname)
ParsedLong(event) == Or(event.payload.user.longName, event.payload.user.longname)
\* the long names an event carries, under payload.user or in the payload itself
CarriedLong(event) ==
    {l \in {ParsedLong(event), Or(event.payload.top.longName, event.payload.top.longname)} :
        Truthy(l)}

\* C4: a nodeinfo message whose id is already in the seen-id set is not
\* delivered, and the cache holds the names it carries under payload.user.
C4_DuplicateNodeinfoCached ==
    (last.stage = "duplicate" /\ last.event.type = "nodeinfo") =>
        /\ last.endpoints = {}
        /\ last.event.from_id \in DOMAIN node_names
        /\ Truthy(ParsedShort(last.event)) =>
               node_names[last.event.from_id].short = ParsedShort(last.event)
        /\ Truthy(ParsedLong(last.event)) =>
               node_names[last.event.from_id].long = ParsedLong(last.event)

\* A second nodeinfo with the id of a delivered one changed the cached names.
C4_Witness ==
    /\ last.stage = "duplicate"
    /\ last.event.type = "nodeinfo"
    /\ calls[last.event.id] = 1
    /\ last.changed
    /\ node_names[last.event.from_id].long = ParsedLong(last.event)
    /\ node_names[last.event.from_id].short = ParsedShort(last.event)

\* C5: once a non-empty long name L is stored for a node, the display name
\* of the node stays L after every message, unless the message carries a
\* non-empty long name for that node, which is then the display name; and a
\* node with no cache record is displayed as its node id.
C5_LongNameWins ==
    /\ [][\A n \in DOMAIN node_names :
             Truthy(node_names[n].long) =>
                \/ get_node_display_name(node_names', n) = node_names[n].long
                \/ /\ last'.event.from_id = n
                   /\ get_node_display_name(node_names', n) \in CarriedLong(last'.event)]_vars
    /\ [](\A n \in NodeIds \ DOMAIN node_names : get_node_display_name(node_names, n) = n)

\* A message that carries a short name only has changed the record of a node
\* that has a long name, and the display name is still the long name; another
\* node has no record.
C5_Witness ==
    /\ last.stage = "admitted"
    /\ last.event.type = "nodeinfo"
    /\ last.changed
    /\ CarriedLong(last.event) = {}
    /\ Truthy(ParsedShort(last.event))
    /\ node_names[last.event.from_id].short = ParsedShort(last.event)
    /\ Truthy(node_names[last.event.from_id].long)
    /\ get_node_display_name(node_names, last.event.from_id) = node_names[last.event.from_id].long
    /\ NodeIds \ DOMAIN node_names # {}

\* C6: no message deletes a node's record or removes or blanks a name that is
\* set, a stored name is never empty, and update_node_name with an empty or
\* absent short (long) argument leaves the stored short (long) name as it is.
C6_CacheOnlyGrows ==
    /\ [][\A n \in DOMAIN node_names :
             /\ n \in DOMAIN node_names'
             /\ Truthy(node_names[n].short) => Truthy(node_names'[n].short)
             /\ Truthy(node_names[n].long) => Truthy(node_names'[n].long)]_vars
    /\ [](\A n \in DOMAIN node_names :
             /\ node_names[n].short # EmptyStr
             /\ node_names[n].long # EmptyStr
             /\ \A e \in {NoneV, EmptyStr}, v \in NameValues :
                   /\ update_node_name(node_names, n, e, v)[n].short = node_names[n].short
                   /\ update_node_name(node_names, n, v, e)[n].long = node_names[n].long)

\* A nodeinfo with an empty short name and a new long name has changed the
\* record of a node whose short name is set.
C6_Witness ==
    /\ last.stage = "admitted"
    /\ last.event.type = "nodeinfo"
    /\ last.changed
    /\ last.event.payload.user.shortName = EmptyStr
    /\ ~Truthy(ParsedShort(last.event))
    /\ node_names[last.event.from_id].long = ParsedLong(last.event)
    /\ Truthy(node_names[last.event.from_id].short)

-----------------------------------------------------------------------------
(* Topics, malformed input and routing: C7, C8, C9, C10 (under SpecInputs) *)

RegionTopic == <<"msh", "US", "2", "json", "LongFast", "!abcd">>
ShortTopic == <<"meshtastic", "json", "0">>
TailTopic == <<"meshtastic", "json">>

AllTypes == {"text", "position", "telemetry", "nodeinfo", "neighborinfo", Absent, Unhashable}

MissingIdentity == Data("text", NoId, NoFrom, NoneV, Hi, NoPayload)
EmptyText == Data("text", IdVal(1), IntFrom(1), NoneV, NoneV, NoPayload)
BadFrom == Data("text", NoId, StrFrom, Station, Hi, NoPayload)
BadPayload == Data("nodeinfo", NoId, IntFrom(1), NoneV, NoneV, [NoPayload EXCEPT !.k = "notdict"])
NamedNodeinfo == Data("nodeinfo", IdVal(2), IntFrom(1), NoneV, NoneV,
                      UserPayload([NoNames EXCEPT !.longName = LA]))

InputMessages ==
    {Message(JsonTopic, Data(t, i, IntFrom(1), NoneV, Hi, NoPayload)) :
        t \in AllTypes, i \in {NoId, IdVal(1), ListId}}
    \cup {Message(JsonTopic, b) :
            b \in {NotJson, NonDict, MissingIdentity, EmptyText, BadFrom, BadPayload}}
    \cup {Message(t, b) :
            t \in {BinaryTopic, RegionTopic, ShortTopic, TailTopic},
            b \in {NotJson, Data("text", IdVal(1), IntFrom(1), NoneV, Hi, NoPayload), NamedNodeinfo}}

ReceiveInputs ==
    \E m \in InputMessages : \E victim \in PopChoices(seen_messages, m.payload.id) :
        \E ok \in Answers(m) : on_message(m, victim, ok)

NextInputs == main \/ ReceiveInputs

SpecInputs == Init /\ [][NextInputs]_vars

\* the message passed normalization: last.event is the event it produced
Normalized == last.stage \in {"gate", "duplicate", "admitted"}

\* C7 as claimed: the channel of an event is the topic segment right after
\* the (first) json segment; meshtastic/json/2/text yields "2".
C7_ChannelFollowsJson ==
    Normalized =>
        \E i \in 1 .. (Len(last.msg.topic) - 1) :
            /\ last.msg.topic[i] = "json"
            /\ \A j \in 1 .. (i - 1) : last.msg.topic[j] # "json"
            /\ last.event.channel = <<last.msg.topic[i + 1]>>

\* C8: a message whose topic has no json segment is dropped at once: no
\* delivery, and the seen-id set and the cache stay as they are, whatever
\* the payload is.
C8_NoJsonSegmentIgnored ==
    [][(/\ loop = "running"
        /\ \A i \in 1 .. Len(last'.msg.topic) : last'.msg.topic[i] # "json")
       => /\ last'.stage = "ignored"
          /\ last'.endpoints = {}
          /\ UNCHANGED <<seen_messages, node_names, calls, evicted, loop>>]_vars

\* A well-formed nodeinfo with an id and a long name arrived on
\* meshtastic/binary/0 and was ignored.
C8_Witness ==
    /\ last.msg.topic = BinaryTopic
    /\ last.msg.payload = NamedNodeinfo
    /\ last.stage = "ignored"
    /\ node_names = << >>
    /\ seen_messages = {}

\* C9 as claimed: no message makes on_message raise; after every message the
\* ingestion loop is still running.
C9_LoopSurvives == last.stage # "none" => (~last.raised /\ loop = "running")

\* the endpoints the claim gives an admitted event
ClaimedEndpoints(type) ==
    IF type = "text" THEN {"primary"}
    ELSE IF type \in {"position", "telemetry", "nodeinfo"} /\ DISCORD_TELEMETRY_WEBHOOK_URL
         THEN {"telemetry"}
    ELSE {}

\* C10: an admitted event is posted to the primary webhook only if it is a
\* text event, to the telemetry webhook only if it is a position, telemetry
\* or nodeinfo event and that webhook is configured, and to none otherwise;
\* an event that is not admitted is posted nowhere.
C10_RoutedByType ==
    /\ last.stage = "admitted" => last.endpoints = ClaimedEndpoints(last.event.type)
    /\ last.stage # "admitted" => last.endpoints = {}

\* With no telemetry webhook a text event is posted to the primary webhook,
\* after a nodeinfo event (which left its record in the cache) was dropped.
C10_Witness ==
    /\ ~DISCORD_TELEMETRY_WEBHOOK_URL
    /\ last.stage = "admitted"
    /\ last.event.type = "text"
    /\ last.endpoints = {"primary"}
    /\ last.result = "sent"
    /\ FromHex(1) \in DOMAIN node_names
    /\ \A i \in HashableIds : calls[i] = 0

-----------------------------------------------------------------------------
(* Origin identity: C11, C12, C13 (under SpecIdentity) *)

\* numbers below 2^31, and numbers from 2^31 up to 2^32 - 1 as two halves
SmallFroms == {0, 1, 255, 4096, 2147483647}
WideFroms == {<<32768, 0>>, <<40605, 22344>>, <<65535, 65535>>}
NumericFroms == {IntFrom(n) : n \in SmallFroms} \cup {WideFrom(w[1], w[2]) : w \in WideFroms}

\* text messages with every from and sender, and nodeinfo messages (which
\* leave a cache record under their from_id) for one number and the senders
IdentityMessages ==
    {Message(JsonTopic, Data("text", NoId, f, s, Hi, NoPayload)) :
        f \in NumericFroms \cup {NoFrom, StrFrom}, s \in {NoneV, EmptyStr, Station}}
    \cup {Message(JsonTopic, Data("nodeinfo", NoId, f, s, NoneV, NoPayload)) :
            f \in {WideFrom(40605, 22344), NoFrom}, s \in {EmptyStr, Station}}

ReceiveIdentity ==
    \E m \in IdentityMessages : \E victim \in PopChoices(seen_messages, m.payload.id) :
        \E ok \in Answers(m) : on_message(m, victim, ok)

NextIdentity == main \/ ReceiveIdentity

SpecIdentity == Init /\ [][NextIdentity]_vars

Numeric(from) == from.k \in {"int", "wide"}

\* C11 as claimed: a numeric from gives "!" and 8 hex digits; otherwise a
\* sender that is present is the from_id and the message is accepted, also
\* when a from that is not numeric is present; the message is rejected only
\* when neither applies.
C11_SenderFallback ==
    last.stage # "none" =>
        IF Numeric(last.msg.payload.from)
        THEN Normalized /\ Len(last.event.from_id) = 9 /\ last.event.from_id[1] = "!"
        ELSE IF last.msg.payload.sender # NoneV
        THEN Normalized /\ last.event.from_id = last.msg.payload.sender
        ELSE last.stage = "rejected"

\* C12 as claimed: every event that parse_meshtastic_message returns has a
\* from_id that is not empty, also when the sender is the empty string.
C12_FromIdNotEmpty ==
    Normalized => (last.event.from_id # EmptyStr /\ last.event.from_id # NoneV)

\* the value of a lowercase hex digit, and of four of them
HexVal(c) == CHOOSE d \in 0 .. 15 : HexDigits[d + 1] = c
Decode4(s) == HexVal(s[1]) * 4096 + HexVal(s[2]) * 256 + HexVal(s[3]) * 16 + HexVal(s[4])
\* the upper and the lower 16 bits of a numeric from
High(from) == IF from.k = "wide" THEN from.hi ELSE from.v \div 65536
Low(from) == IF from.k = "wide" THEN from.v ELSE from.v % 65536

FromIdOf(from) ==
    parse_meshtastic_message(JsonTopic, Data("text", NoId, from, NoneV, Hi, NoPayload), << >>).msg.from_id

\* C13: a message with an integer from in 0 .. 2^32 - 1 is normalized to an
\* event whose from_id is "!" followed by exactly 8 lowercase hex digits that
\* encode the number, zero-padded; and distinct numbers give distinct from_ids.
C13_HexFromId ==
    /\ (last.stage # "none" /\ Numeric(last.msg.payload.from)) =>
          /\ Normalized
          /\ Len(last.event.from_id) = 9
          /\ last.event.from_id[1] = "!"
          /\ \A i \in 2 .. 9 : \E d \in 1 .. 16 : last.event.from_id[i] = HexDigits[d]
          /\ Decode4(SubSeq(last.event.from_id, 2, 5)) = High(last.msg.payload.from)
          /\ Decode4(SubSeq(last.event.from_id, 6, 9)) = Low(last.msg.payload.from)
    /\ \A a, b \in NumericFroms : a # b => FromIdOf(a) # FromIdOf(b)

\* A number with leading zero digits and a number above 2^31 were both
\* normalized: 255 is the last message, 0x9e9d5748 has left its record.
C13_Witness ==
    /\ Normalized
    /\ last.msg.payload.from = IntFrom(255)
    /\ last.event.from_id = <<"!", "0", "0", "0", "0", "0", "0", "f", "f">>
    /\ <<"!", "9", "e", "9", "d", "5", "7", "4", "8">> \in DOMAIN node_names

-----------------------------------------------------------------------------
(* Events without an id, rejected messages and the cache at delivery:
   C14, C16, C17 (under SpecEvents) and C15 (under SpecInputs) *)

\* From node 1: a nodeinfo with a long name under payload.user, a nodeinfo
\* with a long name in the payload itself, and a text message, each with and
\* without an id; from the station, a nodeinfo that never has an id.
EventMessages ==
    {Message(JsonTopic, Data("nodeinfo", i, IntFrom(1), NoneV, NoneV, pl)) :
        i \in {NoId, IdVal(1)},
        pl \in {UserPayload([NoNames EXCEPT !.longName = LA]),
                TopPayload([NoNames EXCEPT !.longName = LT])}}
    \cup {Message(JsonTopic, Data("text", i, IntFrom(1), NoneV, Hi, NoPayload)) :
            i \in {NoId, IdVal(2)}}
    \cup {Message(JsonTopic, Data("nodeinfo", NoId, NoFrom, Station, NoneV,
                                  UserPayload([NoNames EXCEPT !.shortName = SB])))}

ReceiveEvents ==
    \E m \in EventMessages : \E victim \in PopChoices(seen_messages, m.payload.id) :
        \E ok \in Answers(m) : on_message(m, victim, ok)

NextEvents == main \/ ReceiveEvents

SpecEvents == Init /\ [][NextEvents]_vars

\* C14: a message that is normalized to an event without an id is admitted,
\* whatever came before it, and the step leaves the seen-id set (and the
\* record of evictions) as it was.
C14_NoIdAdmitted ==
    [][(loop = "running" /\ Normalized' /\ last'.event.id = NoId)
       => /\ last'.stage = "admitted"
          /\ seen_messages' = seen_messages
          /\ evicted' = evicted]_vars

\* An id-less text event is admitted and delivered after the id-less
\* nodeinfo events of the station and of node 1, while the set holds an id.
C14_Witness ==
    /\ last.stage = "admitted"
    /\ last.event.id = NoId
    /\ last.event.type = "text"
    /\ last.result = "sent"
    /\ Station \in DOMAIN node_names
    /\ seen_messages = {IdVal(1)}
    /\ calls[IdVal(1)] = 0

\* the reasons for which the claim says normalization rejects a message
ClaimedRejected(data) ==
    \/ data.kind = "notjson"
    \/ data.kind = "dict" /\ data.from.k = "absent" /\ data.sender = NoneV
    \/ /\ data.kind = "dict"
       /\ data.type = "text"
       /\ data.text = NoneV
       /\ ~(data.payload.k = "dict" /\ data.payload.text # NoneV)

\* C15: a message on a json topic that is not JSON, or has neither from nor
\* sender, or is of type text without a text, is rejected: nothing is
\* delivered, and the seen-id set, the cache, the call counts and the loop
\* stay as they are.
C15_RejectedIsDropped ==
    [][(loop = "running" /\ HasJsonMarker(last'.msg.topic) /\ ClaimedRejected(last'.msg.payload))
       => /\ last'.stage = "rejected"
          /\ last'.endpoints = {}
          /\ UNCHANGED <<seen_messages, node_names, calls, evicted, loop>>]_vars

\* A text message with id 1 and no text was rejected; id 1 is not in the
\* set although another id is, and the cache kept its record.
C15_Witness ==
    /\ last.msg.payload = EmptyText
    /\ last.stage = "rejected"
    /\ IdVal(1) \notin seen_messages
    /\ seen_messages # {}
    /\ FromHex(1) \in DOMAIN node_names

\* C16 as claimed: delivering an event does not change the cache: after a
\* nodeinfo message the cache is what normalization alone made of it,
\* whether the message was delivered, dropped as a duplicate or dropped for
\* want of a telemetry webhook.
C16_DeliveryKeepsCache ==
    [][(loop = "running" /\ Normalized' /\ last'.event.type = "nodeinfo")
       => node_names' = parse_meshtastic_message(last'.msg.topic, last'.msg.payload,
                                                 node_names).names]_vars

\* C17: the display name of an event is get_node_display_name on the cache
\* as it was before the message; a delivered notification shows the node id
\* alone for a node that had no record, also when the message itself is the
\* nodeinfo that names the node, and shows the long name, with the node id
\* in brackets, for a node whose long name was in the cache before.
C17_DisplayNameAtParse ==
    [][(loop = "running" /\ Normalized')
       => /\ last'.event.from = get_node_display_name(node_names, last'.event.from_id)
          /\ (last'.endpoints # {} /\ last'.event.from_id \notin DOMAIN node_names)
                => last'.note.from = last'.event.from_id
          /\ (/\ last'.endpoints # {}
              /\ last'.event.from_id \in DOMAIN node_names
              /\ Truthy(node_names[last'.event.from_id].long))
                => last'.note.from = node_names[last'.event.from_id].long
                                     \o <<" ", "(">> \o last'.event.from_id \o <<")">>]_vars

\* The nodeinfo that gives node 1 its long name was delivered with the
\* node id as its From field, and the name is now in the cache.
C17_Witness ==
    /\ last.stage = "admitted"
    /\ last.event.type = "nodeinfo"
    /\ last.result = "sent"
    /\ last.changed
    /\ last.note.from = FromHex(1)
    /\ "Long Name" \in last.note.fields
    /\ node_names[FromHex(1)].long = LA

-----------------------------------------------------------------------------
(* Position and telemetry notifications: C18, C19 (under SpecTelemetry) *)

Coordinates == {NoNum, Num(0), Num(5)}
PositionDicts ==
    [latitude_i : Coordinates, latitudeI : {NoNum, Num(0)},
     longitude_i : Coordinates, longitudeI : {NoNum}]
BatteryLevels == {NoNum, Num(0), Num(19), Num(20), Num(21), Num(100)}

\* payload {"latitude_i": ..} and payload {"position": {"latitude_i": ..}}
PositionPayloads ==
    {[NoPayload EXCEPT !.k = "dict", !.coords = c] : c \in PositionDicts}
    \cup {[NoPayload EXCEPT !.k = "dict", !.posk = "dict", !.position = c] : c \in PositionDicts}
\* payload {"battery_level": ..} and payload {"device_metrics": {"battery_level": ..}}
TelemetryPayloads ==
    {[NoPayload EXCEPT !.k = "dict", !.battery_level = b] : b \in BatteryLevels}
    \cup {[NoPayload EXCEPT !.k = "dict", !.metricsk = "dict", !.device_metrics = b] :
            b \in BatteryLevels}

TelemetryMessages ==
    {Message(JsonTopic, Data("position", NoId, IntFrom(1), NoneV, NoneV, pl)) :
        pl \in PositionPayloads}
    \cup {Message(JsonTopic, Data("telemetry", NoId, IntFrom(1), NoneV, NoneV, pl)) :
            pl \in TelemetryPayloads}

ReceiveTelemetry ==
    \E m \in TelemetryMessages : \E victim \in PopChoices(seen_messages, m.payload.id) :
        \E ok \in Answers(m) : on_message(m, victim, ok)

NextTelemetry == main \/ ReceiveTelemetry

SpecTelemetry == Init /\ [][NextTelemetry]_vars

\* the coordinate a position dict gives under either spelling of the key
GivenLatitude(pos) == IF pos.latitude_i # NoNum THEN pos.latitude_i ELSE pos.latitudeI
GivenLongitude(pos) == IF pos.longitude_i # NoNum THEN pos.longitude_i ELSE pos.longitudeI

\* C18 as claimed: a delivered position notification has a Location field
\* exactly when latitude and longitude are both present and not both zero;
\* in particular it has one when exactly one of the two is zero.
C18_LocationField ==
    (last.result = "sent" /\ last.event.type = "position") =>
        LET pos == Position(last.event.payload)
        IN  ("Location" \in last.note.fields)
            <=> /\ GivenLatitude(pos) # NoNum
                /\ GivenLongitude(pos) # NoNum
                /\ ~(GivenLatitude(pos) = Num(0) /\ GivenLongitude(pos) = Num(0))

\* C19 as claimed: a delivered telemetry notification with a battery level b
\* has the low-battery marker exactly when b < 20: 19 is low, 20 is not.
C19_LowBelowTwenty ==
    (/\ last.result = "sent"
     /\ last.event.type = "telemetry"
     /\ BatteryLevel(last.event.payload) # NoNum) =>
        ((last.note.battery = "low_battery") <=> (BatteryLevel(last.event.payload)[1] < 20))

====
